---- MODULE Spec2Model ----
(***************************************************************************)
(* Model of nnue_bin_reader.py: the bit reader (read_bit, read_bits), the  *)
(* piece decoder over HUFFMAN_TABLE (read_piece), the position decoder     *)
(* (read_position), the move decoder (read_move) and the record reader     *)
(* NNUEBinReader (get_sample, get_raw_sample).                             *)
(*                                                                         *)
(* A buffer is a sequence of bytes (0..255), as the numpy uint8 array the  *)
(* code indexes.  Python's None is the empty tuple, a chess.Piece is the   *)
(* pair <<piece_type, color>>, and an exception raised by the code is a    *)
(* result whose ok field is FALSE and whose err field names the exception. *)
(***************************************************************************)
EXTENDS Integers, Sequences, FiniteSets, TLC

VARIABLES
    data,       \* the buffer handed to read_piece / read_position
    inp,        \* the fields the buffer was built from (the input)
    pres,       \* read_piece: what the call returned ("idle" before it)
    pos,        \* read_position: the frame of the running call
    word,       \* read_move: the 16-bit argument
    move,       \* read_move: what the call returned
    file,       \* NNUEBinReader: the bytes of the file at self.path
    rd          \* NNUEBinReader: the reader object and the last call's outcome

vars == <<data, inp, pres, pos, word, move, file, rd>>

----------------------------------------------------------------------------
(* Constants of the program and of the chess library it imports.           *)

SFEN_BIN_SIZE == 40
POSITION_BYTES == 32

PAWN == 1
KNIGHT == 2
BISHOP == 3
ROOK == 4
QUEEN == 5
KING == 6
WHITE == TRUE
BLACK == FALSE

BB_H1 == 7
BB_A1 == 0
BB_H8 == 63
BB_A8 == 56

None == << >>
Piece(piece_type, color) == <<piece_type, color>>

\* chess.square(file_index, rank_index)
square(f, r) == r * 8 + f

\* The third field is the piece type; 0 stands for the None of the first row.
HUFFMAN_TABLE ==
    << <<0, 1, 0>>,
       <<1, 4, PAWN>>,
       <<3, 4, KNIGHT>>,
       <<5, 4, BISHOP>>,
       <<7, 4, ROOK>>,
       <<9, 4, QUEEN>> >>

----------------------------------------------------------------------------
(* Bounds of the model.                                                    *)

PieceBufLen == 2    \* bytes of the buffers read_piece is tried on
MaxStart == 11      \* largest start cursor read_piece is tried at
WindowBits == 6     \* bits of the buffer that vary freely from the cursor
MaxAt == 2          \* the piece code that varies is among the first MaxAt
MaxRecords == 2     \* whole records in a file (a partial one may follow)
MaxCalls == 3       \* calls made on one reader

----------------------------------------------------------------------------
(* Arithmetic on bits.                                                     *)

RECURSIVE Pow2(_)
Pow2(n) == IF n = 0 THEN 1 ELSE 2 * Pow2(n - 1)

\* x >> n and x & (2^n - 1) on non-negative integers
Shr(x, n) == x \div Pow2(n)
Low(x, n) == x % Pow2(n)

\* The nbytes bytes whose bits, taken LSB-first within each byte, are the
\* first 8 * nbytes elements of the sequence bits: the layout read_bit reads.
PackBytes(bits, nbytes) ==
    [j \in 1..nbytes |->
        bits[8 * j - 7] + 2 * bits[8 * j - 6] + 4 * bits[8 * j - 5]
        + 8 * bits[8 * j - 4] + 16 * bits[8 * j - 3] + 32 * bits[8 * j - 2]
        + 64 * bits[8 * j - 1] + 128 * bits[8 * j]]

----------------------------------------------------------------------------
(* read_bit, read_bits                                                     *)

\* A read past the end that yields a 0 bit instead of raising.
ReadBitUnchecked(buf, cursor) ==
    IF cursor \div 8 >= Len(buf)
    THEN [ok |-> TRUE, b |-> 0, cursor |-> cursor + 1, err |-> "none"]
    ELSE [ok |-> TRUE, b |-> Shr(buf[cursor \div 8 + 1], cursor % 8) % 2,
          cursor |-> cursor + 1, err |-> "none"]

\* data[cursor//8] raises IndexError when cursor//8 >= len(data); the cursor
\* is never negative, so Python's negative indexing does not come into play.
read_bit(buf, cursor) ==
    IF cursor \div 8 >= Len(buf)
    THEN [ok |-> FALSE, b |-> 0, cursor |-> cursor, err |-> "IndexError"]
    ELSE [ok |-> TRUE, b |-> Shr(buf[cursor \div 8 + 1], cursor % 8) % 2,
          cursor |-> cursor + 1, err |-> "none"]

RECURSIVE ReadBitsFrom(_, _, _, _, _)
ReadBitsFrom(buf, cursor, nbits, k, v) ==
    IF k = nbits
    THEN [ok |-> TRUE, v |-> v, cursor |-> cursor, err |-> "none"]
    ELSE LET r == read_bit(buf, cursor)
         IN  IF ~r.ok
             THEN [ok |-> FALSE, v |-> 0, cursor |-> r.cursor, err |-> r.err]
             ELSE ReadBitsFrom(buf, r.cursor, nbits, k + 1,
                               IF r.b > 0 THEN v + Pow2(k) ELSE v)

read_bits(buf, cursor, nbits) == ReadBitsFrom(buf, cursor, nbits, 0, 0)

----------------------------------------------------------------------------
(* read_piece                                                              *)

\* A match on the code alone, whatever the number of bits read.
TableMatchAnyLength(code, nbits) ==
    LET hits == {k \in 1..Len(HUFFMAN_TABLE) : HUFFMAN_TABLE[k][1] = code}
    IN  IF hits = {} THEN 0 ELSE CHOOSE k \in hits : \A h \in hits : k <= h

\* The table row matching (code, nbits), 0 when there is none: the for loop
\* of read_piece breaks at the first match.
TableMatch(code, nbits) ==
    LET hits == {k \in 1..Len(HUFFMAN_TABLE) :
                    HUFFMAN_TABLE[k][1] = code /\ HUFFMAN_TABLE[k][2] = nbits}
    IN  IF hits = {} THEN 0 ELSE CHOOSE k \in hits : \A h \in hits : k <= h

\* The longest code of the table.
MaxRowBits ==
    CHOOSE n \in {HUFFMAN_TABLE[k][2] : k \in 1..Len(HUFFMAN_TABLE)} :
        \A k \in 1..Len(HUFFMAN_TABLE) : HUFFMAN_TABLE[k][2] <= n

\* The while loop of read_piece: one bit per iteration until a row matches.
\* nbits counts the code bits read; it is returned so that the number of
\* iterations can be observed.  Once nbits has reached the longest code of
\* the table without a match no row can match any more (a row matches on
\* nbits too), so the remaining iterations only read on, one bit each,
\* until read_bit raises at the end of the buffer: that tail of the loop is
\* given by its outcome.
RECURSIVE PeelCode(_, _, _, _)
PeelCode(buf, cursor, code, nbits) ==
    IF nbits >= MaxRowBits
    THEN LET stop == IF cursor > 8 * Len(buf) THEN cursor ELSE 8 * Len(buf)
         IN  [ok |-> FALSE, piece_type |-> 0, cursor |-> stop,
              nbits |-> nbits + (stop - cursor), err |-> "IndexError"]
    ELSE
    LET r == read_bit(buf, cursor)
    IN  IF ~r.ok
        THEN [ok |-> FALSE, piece_type |-> 0, cursor |-> r.cursor,
              nbits |-> nbits, err |-> r.err]
        ELSE LET code2 == code + r.b * Pow2(nbits)
                 k == TableMatch(code2, nbits + 1)
             IN  IF k # 0
                 THEN [ok |-> TRUE, piece_type |-> HUFFMAN_TABLE[k][3],
                       cursor |-> r.cursor, nbits |-> nbits + 1, err |-> "none"]
                 ELSE PeelCode(buf, r.cursor, code2, nbits + 1)

\* read_piece returns (piece, cursor) or raises.  Beside them the result
\* records found (the while loop ended with a match) and nbits (the code
\* bits the loop read).

\* The colour bit read the other way round.
ReadPieceColourSwapped(buf, cursor) ==
    LET c == PeelCode(buf, cursor, 0, 0)
    IN  IF ~c.ok
        THEN [ok |-> FALSE, found |-> FALSE, piece |-> None,
              cursor |-> c.cursor, nbits |-> c.nbits, err |-> c.err]
        ELSE IF c.piece_type = 0
        THEN [ok |-> TRUE, found |-> TRUE, piece |-> None,
              cursor |-> c.cursor, nbits |-> c.nbits, err |-> "none"]
        ELSE LET r == read_bit(buf, c.cursor)
             IN  IF ~r.ok
                 THEN [ok |-> FALSE, found |-> TRUE, piece |-> None,
                       cursor |-> r.cursor, nbits |-> c.nbits, err |-> r.err]
                 ELSE [ok |-> TRUE, found |-> TRUE,
                       piece |-> Piece(c.piece_type,
                                       IF r.b = 0 THEN BLACK ELSE WHITE),
                       cursor |-> r.cursor, nbits |-> c.nbits, err |-> "none"]

read_piece(buf, cursor) ==
    LET c == PeelCode(buf, cursor, 0, 0)
    IN  IF ~c.ok
        THEN [ok |-> FALSE, found |-> FALSE, piece |-> None,
              cursor |-> c.cursor, nbits |-> c.nbits, err |-> c.err]
        ELSE IF c.piece_type = 0
        THEN [ok |-> TRUE, found |-> TRUE, piece |-> None,
              cursor |-> c.cursor, nbits |-> c.nbits, err |-> "none"]
        ELSE LET r == read_bit(buf, c.cursor)
             IN  IF ~r.ok
                 THEN [ok |-> FALSE, found |-> TRUE, piece |-> None,
                       cursor |-> r.cursor, nbits |-> c.nbits, err |-> r.err]
                 ELSE [ok |-> TRUE, found |-> TRUE,
                       piece |-> Piece(c.piece_type,
                                       IF r.b = 0 THEN WHITE ELSE BLACK),
                       cursor |-> r.cursor, nbits |-> c.nbits, err |-> "none"]

----------------------------------------------------------------------------
(* read_move                                                               *)

\* The promotion field used without the +2 offset.
ReadMoveNoOffset(w) ==
    LET to_sq == Low(w, 6)
        from_sq == Low(Shr(w, 6), 6)
        promotion == Low(Shr(w, 12), 2)
        special == Low(Shr(w, 14), 2)
    IN  IF special = 1
        THEN [from_square |-> from_sq, to_square |-> to_sq,
              promotion |-> <<promotion>>]
        ELSE [from_square |-> from_sq, to_square |-> to_sq, promotion |-> None]

\* chess.Move(from_square, to_square, promotion=None); the promotion is a
\* one-element tuple when present, None otherwise.
read_move(w) ==
    LET to_sq == Low(w, 6)
        from_sq == Low(Shr(w, 6), 6)
        promotion == Low(Shr(w, 12), 2)
        special == Low(Shr(w, 14), 2)
    IN  IF special = 1
        THEN [from_square |-> from_sq, to_square |-> to_sq,
              promotion |-> <<promotion + 2>>]
        ELSE [from_square |-> from_sq, to_square |-> to_sq, promotion |-> None]

----------------------------------------------------------------------------
(* read_position, as a frame stepped from one read to the next.            *)
(*                                                                         *)
(* The frame holds the locals of the call (cursor, wksq, bksq, the loop    *)
(* indices r and f, low50) and the fields of the board object it fills.    *)
(* castling_rights is the set of squares whose bit is set in the mask.     *)
(* ep_square is None or a one-element tuple.  pc is the statement the call *)
(* is at: "done" once it has returned the board, "raised" once a read has  *)
(* raised, stmt then being the statement that raised.  visited records,    *)
(* for each read_piece call of the loop, the square it was made for, the   *)
(* piece returned and the bits consumed.                                   *)

Squares == 0..63

\* chess.Board(fen=None): an empty board with the library's defaults.
InitFrame ==
    [pc |-> "turn", cursor |-> 0, err |-> "none", stmt |-> "none",
     returned |-> FALSE,
     board |-> [sq \in Squares |-> None], turn |-> WHITE,
     castling_rights |-> {}, ep_square |-> None,
     halfmove_clock |-> 0, fullmove_number |-> 1,
     wksq |-> 0, bksq |-> 0, r |-> 7, f |-> 0, low50 |-> 0,
     visited |-> << >>]

\* An exception leaves the call: nothing is returned.
Raise(fr, res) ==
    [fr EXCEPT !.pc = "raised", !.stmt = fr.pc, !.err = res.err,
               !.cursor = res.cursor]

set_piece_at(board, sq, piece) == [board EXCEPT ![sq] = piece]

StepTurn(buf, fr) ==
    LET res == read_bit(buf, fr.cursor)
    IN  IF ~res.ok THEN Raise(fr, res)
        ELSE [fr EXCEPT !.turn = IF res.b = 0 THEN WHITE ELSE BLACK,
                        !.cursor = res.cursor, !.pc = "wksq"]

StepWksq(buf, fr) ==
    LET res == read_bits(buf, fr.cursor, 6)
    IN  IF ~res.ok THEN Raise(fr, res)
        ELSE [fr EXCEPT !.wksq = res.v,
                        !.board = set_piece_at(@, res.v, Piece(KING, WHITE)),
                        !.cursor = res.cursor, !.pc = "bksq"]

StepBksq(buf, fr) ==
    LET res == read_bits(buf, fr.cursor, 6)
    IN  IF ~res.ok THEN Raise(fr, res)
        ELSE [fr EXCEPT !.bksq = res.v,
                        !.board = set_piece_at(@, res.v, Piece(KING, BLACK)),
                        !.cursor = res.cursor, !.pc = "pieces"]

\* The loop header: r runs 7..0 and, inside it, f runs 0..7.
NextIteration(fr) ==
    IF fr.f < 7 THEN [fr EXCEPT !.f = @ + 1]
    ELSE IF fr.r > 0 THEN [fr EXCEPT !.r = @ - 1, !.f = 0]
    ELSE [fr EXCEPT !.pc = "castling"]

\* One iteration of the piece loop, for square sq.
LoopBody(buf, fr, sq) ==
    IF sq = fr.wksq \/ sq = fr.bksq
    THEN NextIteration(fr)
    ELSE LET res == read_piece(buf, fr.cursor)
         IN  IF ~res.ok THEN Raise(fr, res)
             ELSE NextIteration(
                    [fr EXCEPT
                       !.board = IF res.piece # None
                                 THEN set_piece_at(@, sq, res.piece) ELSE @,
                       !.cursor = res.cursor,
                       !.visited = Append(@, [sq |-> sq, piece |-> res.piece,
                                              bits |-> res.cursor - fr.cursor])])

\* The loop body without the test for the king squares.
LoopBodyNoSkip(buf, fr, sq) ==
    LET res == read_piece(buf, fr.cursor)
    IN  IF ~res.ok THEN Raise(fr, res)
        ELSE NextIteration(
               [fr EXCEPT
                  !.board = IF res.piece # None
                            THEN set_piece_at(@, sq, res.piece) ELSE @,
                  !.cursor = res.cursor,
                  !.visited = Append(@, [sq |-> sq, piece |-> res.piece,
                                         bits |-> res.cursor - fr.cursor])])

StepSquareNoSkip(buf, fr) == LoopBodyNoSkip(buf, fr, square(fr.f, fr.r))

\* The squares taken file by file instead of rank by rank.
StepSquareTransposed(buf, fr) == LoopBody(buf, fr, square(fr.r, fr.f))

StepSquare(buf, fr) == LoopBody(buf, fr, square(fr.f, fr.r))

CastlingMasks == <<BB_H1, BB_A1, BB_H8, BB_A8>>

\* The four castling bits, from the k-th on.
RECURSIVE CastlingFrom(_, _, _)
CastlingFrom(buf, fr, k) ==
    IF k > Len(CastlingMasks) THEN [fr EXCEPT !.pc = "ep"]
    ELSE LET res == read_bit(buf, fr.cursor)
         IN  IF ~res.ok THEN Raise(fr, res)
             ELSE CastlingFrom(buf,
                    [fr EXCEPT !.castling_rights =
                                  IF res.b = 1 THEN @ \cup {CastlingMasks[k]}
                                  ELSE @,
                               !.cursor = res.cursor],
                    k + 1)

StepCastling(buf, fr) == CastlingFrom(buf, fr, 1)

StepEp(buf, fr) ==
    LET res == read_bit(buf, fr.cursor)
    IN  IF ~res.ok THEN Raise(fr, res)
        ELSE IF res.b # 1
        THEN [fr EXCEPT !.cursor = res.cursor, !.pc = "low50"]
        ELSE LET sq == read_bits(buf, res.cursor, 6)
             IN  IF ~sq.ok THEN Raise(fr, sq)
                 ELSE [fr EXCEPT !.ep_square = <<sq.v>>,
                                 !.cursor = sq.cursor, !.pc = "low50"]

StepLow50(buf, fr) ==
    LET res == read_bits(buf, fr.cursor, 6)
    IN  IF ~res.ok THEN Raise(fr, res)
        ELSE [fr EXCEPT !.low50 = res.v, !.cursor = res.cursor,
                        !.pc = "fullmove"]

\* The two bytes of the fullmove number combined the wrong way round.
StepFullmoveSwapped(buf, fr) ==
    LET lo == read_bits(buf, fr.cursor, 8)
    IN  IF ~lo.ok THEN Raise(fr, lo)
        ELSE LET hi == read_bits(buf, lo.cursor, 8)
             IN  IF ~hi.ok THEN Raise(fr, hi)
                 ELSE [fr EXCEPT !.fullmove_number = lo.v * Pow2(8) + hi.v,
                                 !.cursor = hi.cursor, !.pc = "high50"]

StepFullmove(buf, fr) ==
    LET lo == read_bits(buf, fr.cursor, 8)
    IN  IF ~lo.ok THEN Raise(fr, lo)
        ELSE LET hi == read_bits(buf, lo.cursor, 8)
             IN  IF ~hi.ok THEN Raise(fr, hi)
                 ELSE [fr EXCEPT !.fullmove_number = hi.v * Pow2(8) + lo.v,
                                 !.cursor = hi.cursor, !.pc = "high50"]

StepHigh50(buf, fr) ==
    LET res == read_bit(buf, fr.cursor)
    IN  IF ~res.ok THEN Raise(fr, res)
        ELSE [fr EXCEPT !.halfmove_clock = res.b * Pow2(6) + fr.low50,
                        !.cursor = res.cursor, !.pc = "done",
                        !.returned = TRUE]

Step(buf, fr) ==
    CASE fr.pc = "turn" -> StepTurn(buf, fr)
      [] fr.pc = "wksq" -> StepWksq(buf, fr)
      [] fr.pc = "bksq" -> StepBksq(buf, fr)
      [] fr.pc = "pieces" -> StepSquare(buf, fr)
      [] fr.pc = "castling" -> StepCastling(buf, fr)
      [] fr.pc = "ep" -> StepEp(buf, fr)
      [] fr.pc = "low50" -> StepLow50(buf, fr)
      [] fr.pc = "fullmove" -> StepFullmove(buf, fr)
      [] fr.pc = "high50" -> StepHigh50(buf, fr)

RECURSIVE RunFrame(_, _)
RunFrame(buf, fr) ==
    IF fr.pc \in {"done", "raised"} THEN fr ELSE RunFrame(buf, Step(buf, fr))

\* The whole call: the final frame, returned or raised.
read_position(buf) == RunFrame(buf, InitFrame)

----------------------------------------------------------------------------
(* NNUEBinReader                                                           *)
(*                                                                         *)
(* rd.fh is the position of the file handle self.fh.  np.fromfile reads    *)
(* whole items while bytes remain and returns the items it got, without    *)
(* raising when they are fewer than count; the handle ends after the bytes *)
(* that were read, the bytes of a cut item included.                       *)

FromFile(f, fh, itemsize, count) ==
    LET avail == IF Len(f) > fh THEN Len(f) - fh ELSE 0
        want == itemsize * count
        n == IF want < avail THEN want ELSE avail
        items == n \div itemsize
    IN  [bytes |-> SubSeq(f, fh + 1, fh + items * itemsize),
         items |-> items, fh |-> fh + n, n |-> n]

\* Little-endian values of the arrays np.fromfile returns.
U16(bytes) == bytes[1] + 256 * bytes[2]
S16(bytes) == IF U16(bytes) >= 32768 THEN U16(bytes) - 65536 ELSE U16(bytes)

\* NNUEBinReader(path, offset=o) on a file with the bytes f.
OpenReader(f, o) ==
    [state |-> "open", offset |-> o, nsamples |-> Len(f) \div SFEN_BIN_SIZE,
     fh |-> o, calls |-> 0, raised |-> 0,
     last |-> [op |-> "none", start |-> o, reads |-> << >>,
               outcome |-> "none", err |-> "none", value |-> None]]

\* What a call leaves behind: the handle where the last np.fromfile left it,
\* and the call's outcome.  reads lists the bytes each np.fromfile consumed.
AfterCall(r, op, fh, reads, outcome, err, value) ==
    [r EXCEPT !.fh = fh, !.calls = @ + 1,
              !.raised = IF outcome = "raised" THEN @ + 1 ELSE @,
              !.last = [op |-> op, start |-> r.fh, reads |-> reads,
                        outcome |-> outcome, err |-> err, value |-> value]]

\* get_sample: int() of an empty array raises TypeError, as does read_move
\* of one; the result array is returned as read, empty or not.
get_sample(f, r) ==
    LET a1 == FromFile(f, r.fh, 1, POSITION_BYTES)
        fr == read_position(a1.bytes)
        a2 == FromFile(f, a1.fh, 2, 1)
        a3 == FromFile(f, a2.fh, 2, 1)
        a4 == FromFile(f, a3.fh, 2, 1)
        a5 == FromFile(f, a4.fh, 1, 1)
        a6 == FromFile(f, a5.fh, 1, 1)
    IN  IF fr.pc = "raised"
        THEN AfterCall(r, "get_sample", a1.fh, <<a1.n>>, "raised", fr.err, None)
        ELSE IF a2.items = 0
        THEN AfterCall(r, "get_sample", a2.fh, <<a1.n, a2.n>>,
                       "raised", "TypeError", None)
        ELSE IF a3.items = 0
        THEN AfterCall(r, "get_sample", a3.fh, <<a1.n, a2.n, a3.n>>,
                       "raised", "TypeError", None)
        ELSE IF a4.items = 0
        THEN AfterCall(r, "get_sample", a4.fh, <<a1.n, a2.n, a3.n, a4.n>>,
                       "raised", "TypeError", None)
        ELSE AfterCall(r, "get_sample", a6.fh,
                       <<a1.n, a2.n, a3.n, a4.n, a5.n, a6.n>>, "returned", "none",
                       <<[board |-> fr.board, turn |-> fr.turn,
                          castling_rights |-> fr.castling_rights,
                          ep_square |-> fr.ep_square,
                          halfmove_clock |-> fr.halfmove_clock,
                          fullmove_number |-> fr.fullmove_number],
                         S16(a2.bytes), read_move(U16(a3.bytes)),
                         U16(a4.bytes), a5.bytes>>)

\* get_raw_sample: the five arrays as read; nothing in it raises.
get_raw_sample(f, r) ==
    LET a1 == FromFile(f, r.fh, 1, POSITION_BYTES)
        a2 == FromFile(f, a1.fh, 2, 1)
        a3 == FromFile(f, a2.fh, 2, 1)
        a4 == FromFile(f, a3.fh, 2, 1)
        a5 == FromFile(f, a4.fh, 1, 1)
        a6 == FromFile(f, a5.fh, 1, 1)
    IN  AfterCall(r, "get_raw_sample", a6.fh,
                  <<a1.n, a2.n, a3.n, a4.n, a5.n, a6.n>>, "returned", "none",
                  <<a1.bytes, a2.bytes, a3.bytes, a4.bytes, a5.bytes>>)

----------------------------------------------------------------------------
(* Values of the variables a specification does not use.                   *)

NoInput == [start |-> 0, window |-> 0, fill |-> 0]
NoPieceCall == [called |-> FALSE, ok |-> FALSE, found |-> FALSE,
                piece |-> None, cursor |-> 0, nbits |-> 0, err |-> "none"]
NoMoveCall == [called |-> FALSE,
               value |-> [from_square |-> 0, to_square |-> 0, promotion |-> None]]
NoFrame == [pc |-> "idle"]
NoReader == [state |-> "idle"]

----------------------------------------------------------------------------
(* SpecPiece: read_piece called once on a buffer of PieceBufLen bytes, at  *)
(* cursor inp.start.  The WindowBits bits from the cursor on are the bits  *)
(* of inp.window (first-read = bit 0), every other bit is inp.fill.        *)

PieceInputs ==
    [start : 0..MaxStart, window : 0..(Pow2(WindowBits) - 1), fill : {0, 1}]

PieceBuffer(i) ==
    PackBytes([n \in 1..(8 * PieceBufLen) |->
                  IF n > i.start /\ n <= i.start + WindowBits
                  THEN Shr(i.window, n - 1 - i.start) % 2
                  ELSE i.fill],
              PieceBufLen)

InitPiece ==
    /\ inp \in PieceInputs
    /\ data = PieceBuffer(inp)
    /\ pres = NoPieceCall
    /\ pos = NoFrame
    /\ word = 0
    /\ move = NoMoveCall
    /\ file = << >>
    /\ rd = NoReader

CallReadPiece ==
    /\ ~pres.called
    /\ pres' = [called |-> TRUE] @@ read_piece(data, inp.start)
    /\ UNCHANGED <<data, inp, pos, word, move, file, rd>>

NextPiece == CallReadPiece

SpecPiece == InitPiece /\ [][NextPiece]_vars

----------------------------------------------------------------------------
(* SpecPos: read_position stepped over buffers packed from known fields.   *)
(*                                                                         *)
(* An input names the fields in the order the format lays them out: side   *)
(* to move, the two king squares, one piece code per remaining square in   *)
(* loop order, then the castling bits, the en-passant field, the low six   *)
(* bits of the halfmove clock, the two bytes of the fullmove number and    *)
(* the high bit of the halfmove clock.  Every piece code is inp.fill but   *)
(* the inp.at-th, which is inp.tok.  The bits are packed into inp.len      *)
(* bytes: cut there when they are more, padded with zeros when fewer.      *)

\* A piece code with its colour bit: the value v over n bits, first bit low.
EmptyCode == [v |-> 0, n |-> 1]
PieceCodes == {[v |-> c + 16 * colour, n |-> 5] : c \in {1, 3, 5, 7, 9},
                                                   colour \in {0, 1}}
BadCodes == {[v |-> c, n |-> 4] : c \in {11, 13, 15}}
Codes == {EmptyCode} \cup PieceCodes \cup BadCodes

KingSquares == {4, 35, 60}
AtSquares == (1..MaxAt) \cup {62, 63}
Fills == {EmptyCode, [v |-> 1, n |-> 5]}
ShortLens == {0, 1, 2, 12, 13, 14, 31}

DefaultTail == [castling |-> 0, ep |-> None, halfmove |-> 0, fullmove |-> 1]
FullTail == [castling |-> 15, ep |-> <<43>>, halfmove |-> 127, fullmove |-> 511]
Tails == [castling : {0, 5, 10, 15}, ep : {None, <<43>>},
          halfmove : {0, 63, 64, 127}, fullmove : {1, 255, 511, 65535}]

PosInputs ==
    [turn : {0, 1}, wksq : KingSquares, bksq : KingSquares,
     fill : Fills, at : AtSquares, tok : Codes,
     tail : {DefaultTail, FullTail}, len : {POSITION_BYTES}]
    \cup
    [turn : {0, 1}, wksq : KingSquares, bksq : KingSquares,
     fill : {EmptyCode}, at : {1}, tok : {EmptyCode},
     tail : Tails, len : {POSITION_BYTES}]
    \cup
    [turn : {0, 1}, wksq : KingSquares, bksq : KingSquares,
     fill : Fills, at : {1}, tok : {EmptyCode},
     tail : {DefaultTail, FullTail}, len : ShortLens]

Bits(v, n) == [k \in 1..n |-> Shr(v, k - 1) % 2]

\* The squares in the order the piece loop takes them.
LoopOrder == [j \in 1..64 |-> square((j - 1) % 8, 7 - ((j - 1) \div 8))]

NonKingOrder(i) ==
    SelectSeq(LoopOrder, LAMBDA sq : sq # i.wksq /\ sq # i.bksq)

CodeAt(i, j) == IF j = i.at THEN i.tok ELSE i.fill

RECURSIVE CodeBitsFrom(_, _, _)
CodeBitsFrom(i, j, last) ==
    IF j > last THEN << >>
    ELSE Bits(CodeAt(i, j).v, CodeAt(i, j).n) \o CodeBitsFrom(i, j + 1, last)

TailBits(t) ==
    Bits(t.castling, 4)
    \o (IF t.ep = None THEN <<0>> ELSE <<1>> \o Bits(t.ep[1], 6))
    \o Bits(t.halfmove % 64, 6)
    \o Bits(t.fullmove % 256, 8)
    \o Bits(t.fullmove \div 256, 8)
    \o Bits(t.halfmove \div 64, 1)

InputBits(i) ==
    <<i.turn>> \o Bits(i.wksq, 6) \o Bits(i.bksq, 6)
    \o CodeBitsFrom(i, 1, Len(NonKingOrder(i)))
    \o TailBits(i.tail)

PosBuffer(i) ==
    LET bits == InputBits(i)
    IN  PackBytes([n \in 1..(8 * i.len) |->
                      IF n <= Len(bits) THEN bits[n] ELSE 0],
                  i.len)

InitPos ==
    /\ inp \in PosInputs
    /\ data = PosBuffer(inp)
    /\ pos = InitFrame
    /\ pres = NoPieceCall
    /\ word = 0
    /\ move = NoMoveCall
    /\ file = << >>
    /\ rd = NoReader

Others == <<data, inp, pres, word, move, file, rd>>

ReadTurn == pos.pc = "turn" /\ pos' = StepTurn(data, pos) /\ UNCHANGED Others
ReadWksq == pos.pc = "wksq" /\ pos' = StepWksq(data, pos) /\ UNCHANGED Others
ReadBksq == pos.pc = "bksq" /\ pos' = StepBksq(data, pos) /\ UNCHANGED Others
ReadSquare ==
    pos.pc = "pieces" /\ pos' = StepSquare(data, pos) /\ UNCHANGED Others
ReadCastling ==
    pos.pc = "castling" /\ pos' = StepCastling(data, pos) /\ UNCHANGED Others
ReadEp == pos.pc = "ep" /\ pos' = StepEp(data, pos) /\ UNCHANGED Others
ReadLow50 ==
    pos.pc = "low50" /\ pos' = StepLow50(data, pos) /\ UNCHANGED Others
ReadFullmove ==
    pos.pc = "fullmove" /\ pos' = StepFullmove(data, pos) /\ UNCHANGED Others
ReadHigh50 ==
    pos.pc = "high50" /\ pos' = StepHigh50(data, pos) /\ UNCHANGED Others

NextPos ==
    \/ ReadTurn
    \/ ReadWksq
    \/ ReadBksq
    \/ ReadSquare
    \/ ReadCastling
    \/ ReadEp
    \/ ReadLow50
    \/ ReadFullmove
    \/ ReadHigh50

SpecPos == InitPos /\ [][NextPos]_vars

----------------------------------------------------------------------------
(* SpecMove: read_move called once on each 16-bit word.                    *)

InitMove ==
    /\ word \in 0..65535
    /\ move = NoMoveCall
    /\ data = << >>
    /\ inp = NoInput
    /\ pres = NoPieceCall
    /\ pos = NoFrame
    /\ file = << >>
    /\ rd = NoReader

CallReadMove ==
    /\ ~move.called
    /\ move' = [called |-> TRUE, value |-> read_move(word)]
    /\ UNCHANGED <<data, inp, pres, pos, word, file, rd>>

NextMove == CallReadMove

SpecMove == InitMove /\ [][NextMove]_vars

----------------------------------------------------------------------------
(* SpecReader: a reader opened on a file of up to MaxRecords records and   *)
(* a partial one, then up to MaxCalls calls of get_sample and              *)
(* get_raw_sample in any order.                                            *)

\* A record: the position bytes of input i, then score, move, ply, result
\* and padding bytes.
Record(i, score, mv, ply, result) ==
    PosBuffer(i) \o score \o mv \o ply \o result \o <<0>>

KingsOnly ==
    [turn |-> 0, wksq |-> 4, bksq |-> 60, fill |-> EmptyCode, at |-> 1,
     tok |-> EmptyCode, tail |-> DefaultTail, len |-> POSITION_BYTES]

Records ==
    { \* kings only; score 100, move 12 -> 28, ply 1, result 1
      Record(KingsOnly, <<100, 0>>, <<28, 3>>, <<1, 0>>, <<1>>),
      \* a black rook on a8; score -50, promotion 52 -> 60, ply 300, result -1
      Record([KingsOnly EXCEPT !.turn = 1, !.tok = [v |-> 23, n |-> 5],
                               !.tail = FullTail],
             <<206, 255>>, <<60, 125>>, <<44, 1>>, <<255>>),
      \* a piece code no table row matches
      Record([KingsOnly EXCEPT !.tok = [v |-> 11, n |-> 4]],
             <<100, 0>>, <<28, 3>>, <<1, 0>>, <<0>>) }

RECURSIVE Flatten(_)
Flatten(recs) == IF recs = << >> THEN << >> ELSE Head(recs) \o Flatten(Tail(recs))

PartialSizes == {0, 20, 32, 33, 35, 37, 38, 39}
Offsets == {0, 3, SFEN_BIN_SIZE}

Files ==
    { SubSeq(Flatten(recs), 1, SFEN_BIN_SIZE * k + part) :
         recs \in [1..(MaxRecords + 1) -> Records],
         k \in 0..MaxRecords, part \in PartialSizes }

InitReader ==
    /\ file \in Files
    /\ \E o \in Offsets : rd = OpenReader(file, o)
    /\ data = << >>
    /\ inp = NoInput
    /\ pres = NoPieceCall
    /\ pos = NoFrame
    /\ word = 0
    /\ move = NoMoveCall

GetSample ==
    /\ rd.calls < MaxCalls
    /\ rd' = get_sample(file, rd)
    /\ UNCHANGED <<data, inp, pres, pos, word, move, file>>

GetRawSample ==
    /\ rd.calls < MaxCalls
    /\ rd' = get_raw_sample(file, rd)
    /\ UNCHANGED <<data, inp, pres, pos, word, move, file>>

NextReader == GetSample \/ GetRawSample

SpecReader == InitReader /\ [][NextReader]_vars

----------------------------------------------------------------------------
(* Claims about read_piece (SpecPiece).                                    *)

\* The bits of the buffer from the start cursor on are in range for n bits.
InBuffer(n) == inp.start + n <= 8 * Len(data)

\* C1: for every row of the piece code table, read_piece applied to the
\* row's code bits followed by a colour bit returns the row's piece kind,
\* white for colour bit 0 and black for 1, and advances the cursor by 5;
\* applied to the single bit 0 it returns no piece and advances by 1.
C1_TableRoundTrip ==
    pres.called =>
        /\ \A k \in 2..Len(HUFFMAN_TABLE) : \A colour \in {0, 1} :
              (/\ InBuffer(5)
               /\ Low(inp.window, 5) = HUFFMAN_TABLE[k][1] + 16 * colour)
              => /\ pres.ok
                 /\ pres.piece = Piece(HUFFMAN_TABLE[k][3],
                                        IF colour = 0 THEN WHITE ELSE BLACK)
                 /\ pres.cursor = inp.start + 5
        /\ (InBuffer(1) /\ Low(inp.window, 1) = 0)
              => /\ pres.ok
                 /\ pres.piece = None
                 /\ pres.cursor = inp.start + 1

\* A black queen decoded from bits that straddle a byte boundary.
C1_Witness ==
    /\ pres.called
    /\ pres.ok
    /\ pres.piece = Piece(QUEEN, BLACK)
    /\ inp.start = 5
    /\ pres.cursor = 10

UncoveredCodes == {11, 13, 15}

PrefixFree ==
    \A j, k \in 1..Len(HUFFMAN_TABLE) :
        (j # k /\ HUFFMAN_TABLE[j][2] <= HUFFMAN_TABLE[k][2])
        => Low(HUFFMAN_TABLE[k][1], HUFFMAN_TABLE[j][2]) # HUFFMAN_TABLE[j][1]

C6_StopsAtFourBits ==
    (pres.called /\ InBuffer(4) /\ Low(inp.window, 4) \in UncoveredCodes)
    => /\ ~pres.ok
       /\ pres.err = "CorruptEncoding"
       /\ pres.nbits = 4
       /\ pres.cursor = inp.start + 4
       /\ pres.piece = None

----------------------------------------------------------------------------
(* Claims about read_position (SpecPos).                                   *)

KingsOn(board) == {sq \in Squares : board[sq] # None /\ board[sq][1] = KING}
\* The statement the call is at, or was at when it raised.
Stmt == IF pos.pc = "raised" THEN pos.stmt ELSE pos.pc
KingsPlaced == Stmt \notin {"turn", "wksq", "bksq"}
LoopLeft == Stmt \in {"castling", "ep", "low50", "fullmove", "high50", "done"}
VisitedSquares == {pos.visited[j].sq : j \in 1..Len(pos.visited)}

\* C3 as stated: every decoded buffer leaves exactly two kings on the board,
\* a white one at the first square index read and a black one at the second,
\* and the piece loop makes exactly 62 read_piece calls.
C3_TwoKingsAlways ==
    pos.pc = "done" =>
        /\ Cardinality(KingsOn(pos.board)) = 2
        /\ pos.board[inp.wksq] = Piece(KING, WHITE)
        /\ pos.board[inp.bksq] = Piece(KING, BLACK)
        /\ Len(pos.visited) = 62

\* C3 amended: the kings are placed, white then black, at the two square
\* indices read first and before any read_piece call; the piece loop never
\* calls read_piece for a king square, so no king is overwritten and no king
\* stands elsewhere.  When the two indices differ there are exactly two
\* kings and the loop makes 62 calls; when they are equal the black king
\* has replaced the white one, one king is on the board and the loop makes
\* 63 calls.
C3_KingsAndAttempts ==
    /\ ~KingsPlaced =>
          /\ pos.visited = << >>
          /\ \A sq \in Squares : pos.board[sq] # None => sq \in KingsOn(pos.board)
          /\ Stmt = "bksq" =>
                (pos.wksq = inp.wksq /\ pos.board[inp.wksq] = Piece(KING, WHITE))
    /\ KingsPlaced =>
          /\ pos.wksq = inp.wksq
          /\ pos.bksq = inp.bksq
          /\ KingsOn(pos.board) = {inp.wksq, inp.bksq}
          /\ pos.board[inp.bksq] = Piece(KING, BLACK)
          /\ inp.wksq # inp.bksq => pos.board[inp.wksq] = Piece(KING, WHITE)
          /\ VisitedSquares \cap {inp.wksq, inp.bksq} = {}
    /\ LoopLeft =>
          Len(pos.visited) = IF inp.wksq # inp.bksq THEN 62 ELSE 63

\* A decode with both kings on one square: one king and 63 calls.
C3_Witness ==
    /\ pos.pc = "done"
    /\ inp.wksq = inp.bksq
    /\ Cardinality(KingsOn(pos.board)) = 1
    /\ Len(pos.visited) = 63
    /\ \E sq \in Squares : pos.board[sq] # None /\ pos.board[sq][1] # KING

\* The input has a code no table row matches among the codes that are read.
HasBadCode(i) ==
    \E j \in 1..Len(NonKingOrder(i)) : CodeAt(i, j) \in BadCodes

\* The bits the step from frame a to frame b is to consume.
BitsOfStep(a, b) ==
    CASE a.pc = "turn" -> 1
      [] a.pc \in {"wksq", "bksq", "low50"} -> 6
      [] a.pc = "pieces" ->
            IF Len(b.visited) = Len(a.visited) THEN 0
            ELSE IF b.visited[Len(b.visited)].piece = None THEN 1 ELSE 5
      [] a.pc = "castling" -> 4
      [] a.pc = "ep" -> IF b.ep_square = None THEN 1 ELSE 7
      [] a.pc = "fullmove" -> 16
      [] a.pc = "high50" -> 1

CursorInRange ==
    /\ 0 <= pos.cursor
    /\ pos.cursor <= 8 * Len(data)
    /\ pos.returned <=> pos.pc = "done"
    /\ pos.pc = "raised" =>
          /\ pos.err = "IndexError"
          /\ pos.cursor = 8 * Len(data)
          /\ HasBadCode(inp) \/ Len(InputBits(inp)) > 8 * Len(data)
    /\ pos.pc = "done" =>
          /\ ~HasBadCode(inp)
          /\ pos.cursor = Len(InputBits(inp))

\* C5: in every state of a decode 0 <= cursor <= 8*len(buffer); every read
\* that succeeds advances the cursor by the number of bits it read; a read
\* whose byte index is at or past the end of the buffer raises, and then
\* read_position returns nothing.
C5_CursorBounds ==
    /\ []CursorInRange
    /\ [][pos'.pc # "raised" => pos'.cursor = pos.cursor + BitsOfStep(pos, pos')]_vars

\* A 32-byte buffer whose piece codes run past bit 256.
C5_Witness ==
    /\ pos.pc = "raised"
    /\ Len(data) = POSITION_BYTES
    /\ ~HasBadCode(inp)
    /\ Len(pos.visited) > 40
    /\ ~pos.returned

\* C7: after the castling and en-passant fields the call reads 6, 8, 8 and
\* 1 bits and returns halfmove_clock = (high50 << 6) | low6 and
\* fullmove_number = (high byte << 8) | low byte, within 0..127 and
\* 0..65535.
C7_Counters ==
    pos.pc = "done" =>
        /\ pos.halfmove_clock = inp.tail.halfmove
        /\ pos.fullmove_number = inp.tail.fullmove
        /\ pos.halfmove_clock \in 0..127
        /\ pos.fullmove_number \in 0..65535
        /\ pos.low50 = inp.tail.halfmove % 64

\* low6 = 63 with high50 = 1, low byte 0xFF with high byte 0x01.
C7_Witness ==
    /\ pos.pc = "done"
    /\ pos.low50 = 63
    /\ pos.halfmove_clock = 127
    /\ pos.fullmove_number = 511

\* The piece a code stands for: kinds by code value, colour by the fifth bit.
KindOfCode == <<PAWN, KNIGHT, BISHOP, ROOK, QUEEN>>
PieceOfCode(c) ==
    IF c.n # 5 THEN None
    ELSE Piece(KindOfCode[((c.v % 16) + 1) \div 2],
               IF c.v \div 16 = 0 THEN WHITE ELSE BLACK)

\* C9: the j-th read_piece call of the loop is made for the j-th non-king
\* square in the order rank 7 down to 0, file 0 to 7; it consumes the j-th
\* code, 1 bit for an empty square and 5 for a piece, and the piece, if any,
\* goes to that square and no other.
C9_SquareOrder ==
    LET order == NonKingOrder(inp)
    IN  /\ Len(pos.visited) <= Len(order)
        /\ \A j \in 1..Len(pos.visited) :
              /\ pos.visited[j].sq = order[j]
              /\ pos.visited[j].piece = PieceOfCode(CodeAt(inp, j))
              /\ pos.visited[j].bits = IF pos.visited[j].piece = None THEN 1 ELSE 5
        /\ \A j \in 1..Len(pos.visited) :
              pos.board[order[j]] = pos.visited[j].piece
        /\ \A sq \in Squares \ ({inp.wksq, inp.bksq} \cup VisitedSquares) :
              pos.board[sq] = None

\* The last square of the order, h1, holds the piece of the 62nd code.
C9_Witness ==
    /\ pos.pc = "done"
    /\ Len(pos.visited) = 62
    /\ inp.at = 62
    /\ pos.board[7] = Piece(ROOK, BLACK)
    /\ \A sq \in Squares \ {7, inp.wksq, inp.bksq} : pos.board[sq] = None

----------------------------------------------------------------------------
(* Claims about read_move (SpecMove).                                      *)

PromotionKinds == <<KNIGHT, BISHOP, ROOK, QUEEN>>

\* C4: for every 16-bit word read_move returns a move with to = the low 6
\* bits and from = the next 6 bits whatever the special field is; the move
\* carries a promotion kind (knight, bishop, rook, queen for promotion bits
\* 0..3) exactly when the special field is 1, and none otherwise.
C4_MoveFields ==
    move.called =>
        \E special \in 0..3, promo \in 0..3 :
            LET rest == word - 16384 * special - 4096 * promo
            IN  /\ rest \in 0..4095
                /\ move.value.to_square = rest % 64
                /\ move.value.from_square = rest \div 64
                /\ move.value.promotion =
                      IF special = 1 THEN <<PromotionKinds[promo + 1]>> ELSE None

\* A queen promotion from square 63 to square 0, and a castling-flagged
\* word with promotion bits set, both decoded.
C4_Witness ==
    /\ move.called
    /\ \/ /\ word = 16384 + 3 * 4096 + 63 * 64
          /\ move.value.promotion = <<QUEEN>>
       \/ /\ word = 3 * 16384 + 2 * 4096 + 5
          /\ move.value.promotion = None

----------------------------------------------------------------------------
(* Claims about NNUEBinReader (SpecReader).                                *)

\* C8 as stated: when get_sample fails with a decode error on a record that
\* is wholly in the file, no sample is produced and the bad record is
\* neither skipped nor left half read: the stream stands where it stood
\* before the call.
C8_FailureLeavesStream ==
    (/\ rd.last.op = "get_sample"
     /\ rd.last.outcome = "raised"
     /\ rd.last.err = "IndexError"
     /\ rd.last.start + SFEN_BIN_SIZE <= Len(file))
    => /\ rd.last.value = None
       /\ rd.fh = rd.last.start

\* C10 as stated: every call that returns consumes exactly 40 bytes, as
\* fields of 32, 2, 2, 2, 1 and 1 bytes, so that after n calls that all
\* returned the stream position is offset + 40*n and the n-th call read the
\* bytes from offset + 40*(n-1) on.
C10_FortyBytesPerCall ==
    (rd.calls > 0 /\ rd.raised = 0)
    => /\ rd.fh = rd.offset + SFEN_BIN_SIZE * rd.calls
       /\ rd.last.start = rd.offset + SFEN_BIN_SIZE * (rd.calls - 1)
       /\ rd.last.reads = <<32, 2, 2, 2, 1, 1>>

====
